---- MODULE Spec2Model ----
(***************************************************************************)
(* A model of the concurrency core of fioctl:                              *)
(*   utils.exec_stream      the rate-limited executor                      *)
(*   utils.parallelize      the plain thread-pool map                      *)
(*   utils.PositionTracker  the progress slot pool                         *)
(*   assets.upload_handler  the upload orchestrator (runs on exec_stream)  *)
(*   assets.download_stream the download orchestrator (runs on parallelize)*)
(*                                                                         *)
(* Four specifications share the variables:                                *)
(*   SpecExec      exec_stream over abstract items and an abstract worker  *)
(*   SpecUpload    upload_handler: exec_stream with process_queued_item    *)
(*   SpecDownload  download_stream: parallelize with make_asset            *)
(*   SpecTracker   threads calling PositionTracker.acquire / release       *)
(***************************************************************************)
EXTENDS Integers, Sequences, FiniteSets

\* ------------------------------------------------------------------ bounds

\* Number of work items the producer supplies (queued items, remote records).
NItems == 3

\* `capacity`: the worker pool's size and the slot pool's size.
Capacity == 2

\* `rate`: the number of tokens the limiter's bucket holds.
Rate == 2

\* Threads that call the PositionTracker in SpecTracker.
NThreads == 2

\* Largest file size, in bytes, given to a FrameioUploader.
MaxSize == 8

\* Largest number of upload URLs the remote side hands out for one file.
MaxUrls == 4

\* Number of assets in a remote tree.
NNodes == 3

\* Number of streams given to merge_streams, the largest length of one, and
\* the largest key of an element.
NStreams == 2

MaxStreamLen == 2

MaxKey == 2

\* Number of file or folder names a filter is tried on.
NNames == 3

Items == 1..NItems

Threads == 1..NThreads

Positions == 0..(Capacity - 1)

\* The origin root of a tree: the parent of the top-level items.
Root == 0

VARIABLES
    \* exec_stream / parallelize: the calling thread
    pc,          \* where the generator's loop stands
    nextIdx,     \* the producer: index of the next item next(iterable) returns
    futures,     \* exec_stream's `futures` set
    done,        \* the `done` set the current for-loop still has to yield
    tokens,      \* tokens in the limiter's bucket
    yielded,     \* the results the generator has yielded, in order
    \* the thread pool
    fstate,      \* per item: new | queued | running | ok | exc | cancelled
    completed,   \* the items whose futures completed, in the order they did
    \* the input
    syncOf,      \* sync(item)
    truthy,      \* bool(item): False for None, 0, "" and empty containers
    kind,        \* "d" folder or "f" file
    parent,      \* the item's parent directory: Root or an earlier folder
    \* upload_handler / download_stream
    directories, \* upload_handler's `directories`: path -> remote id (0: absent)
    used,        \* PositionTracker.used
    wpc,         \* per item: the line its worker call has reached
    parentId,    \* per item: the local `parent_id`
    position,    \* per item: the local `position` (-1: none)
    calls,       \* create_asset calls made: [item, kind, given, indexed]
    madeDirs,    \* local directories that exist (download)
    \* PositionTracker under threads
    lock,        \* owner of PositionTracker.lock (0: free)
    tpc,         \* per thread: where it stands in acquire / release
    tlocal,      \* per thread: the local `position`
    tsnap,       \* per thread: `used` as it was when the thread took the lock
    holds,       \* per thread: the slots acquire returned to it, not yet released
    hist,        \* the last two completed calls: [op, th, slot, before, held]
    \* the sequential parts, one call each
    uploader,    \* a FrameioUploader: its fields and where upload() stands
    rt,          \* a call of retry: its frame's locals, the sleeps it made
    remote,      \* a remote tree and the records remote_folder_stream yields
    px,          \* a call of get_proxy: its arguments, its locals, its result
    util         \* a call of a function of utils.py taken on its own

vars == <<pc, nextIdx, futures, done, tokens, yielded, fstate, syncOf, kind,
          parent, directories, used, wpc, parentId, position, calls, madeDirs,
          lock, tpc, tlocal, tsnap, holds, hist, uploader, rt, remote, px,
          completed, util, truthy>>

inputVars == <<syncOf, truthy, kind, parent>>

loopVars == <<pc, nextIdx, futures, done, tokens, yielded>>

trackerVars == <<lock, tpc, tlocal, tsnap, holds, hist>>

seqVars == <<uploader, rt, remote, px, util>>

\* ------------------------------------------------------- PositionTracker

Free(u) == {p \in Positions : p \notin u}

MaxFree(u) == CHOOSE p \in Free(u) : \A q \in Free(u) : q <= p

\* min(list(pos for pos in self.positions if pos not in self.used))
MinFree(u) == CHOOSE p \in Free(u) : \A q \in Free(u) : p <= q

\* self.lock is free, or not (the `with self.lock:` of acquire and release)
LockAvailable_NoLock == TRUE

LockAvailable == lock = 0

AllHeld == UNION {holds[t] : t \in Threads}

\* What a PositionTracker call leaves alone.
TrackerOnly ==
    UNCHANGED <<loopVars, fstate, completed, inputVars, directories, wpc,
                parentId, position, calls, madeDirs, seqVars>>

Remember(rec) == IF Len(hist) < 2 THEN Append(hist, rec) ELSE <<hist[2], rec>>

\* ------------------------------------------------------------ initial state

InitLoop ==
    /\ pc = "consume"
    /\ nextIdx = 1
    /\ futures = {}
    /\ done = {}
    /\ tokens = Rate
    /\ yielded = <<>>

InitWork ==
    /\ fstate = [i \in Items |-> "new"]
    /\ completed = <<>>
    /\ directories = [n \in 0..NItems |-> 0]
    /\ used = {}
    /\ wpc = [i \in Items |-> "none"]
    /\ parentId = [i \in Items |-> 0]
    /\ position = [i \in Items |-> -1]
    /\ calls = {}
    /\ madeDirs = {}

InitTracker ==
    /\ lock = 0
    /\ tpc = [t \in Threads |-> "idle"]
    /\ tlocal = [t \in Threads |-> -1]
    /\ tsnap = [t \in Threads |-> {}]
    /\ holds = [t \in Threads |-> {}]
    /\ hist = <<>>

\* No FrameioUploader has been constructed.
NoUploader ==
    [filesize |-> 0, chunks_num |-> 0, chunk_size |-> -1,
     chunk_offsets |-> <<>>, reads |-> <<>>, pc |-> "none"]

\* retry has not been called.
NoRetry ==
    [max_retry_time_sec |-> 0, retry_time_sleep |-> 0, attempt |-> 0,
     calls |-> 0, sleeps |-> <<>>, response |-> "unset", result |-> "unset",
     pc |-> "none"]

\* remote_folder_stream has not been called.
NoRemote ==
    [type |-> <<>>, name |-> <<>>, parent |-> <<>>, recurse_vs |-> FALSE,
     emitted |-> <<>>, pc |-> "none"]

\* get_proxy has not been called.
NoProxy ==
    [asset |-> {}, asset_type |-> "absent", proxy |-> "", family |-> "",
     result |-> <<>>, pc |-> "none"]

\* No function of utils.py is being called on its own.
NoUtil == [pc |-> "none"]

InitSeq ==
    /\ uploader = NoUploader
    /\ rt = NoRetry
    /\ remote = NoRemote
    /\ px = NoProxy
    /\ util = NoUtil

InitNoTree ==
    /\ kind = [i \in Items |-> "f"]
    /\ parent = [i \in Items |-> Root]

\* ------------------------------------- PositionTracker called from threads

\* acquire(), line 489: with self.lock
AcquireLock(t) ==
    /\ TrackerOnly
    /\ tpc[t] = "idle"
    /\ LockAvailable
    /\ lock' = t
    /\ tsnap' = [tsnap EXCEPT ![t] = used]
    /\ tpc' = [tpc EXCEPT ![t] = "acq_min"]
    /\ UNCHANGED <<used, tlocal, holds, hist>>

\* acquire(), line 490: position = min(...). min of an empty list raises
\* ValueError, which leaves the with block and frees the lock.
AcquireMin(t) ==
    /\ TrackerOnly
    /\ tpc[t] = "acq_min"
    /\ IF Free(used) = {}
       THEN /\ lock' = 0
            /\ tpc' = [tpc EXCEPT ![t] = "idle"]
            /\ hist' = Remember([op |-> "raise", th |-> t, slot |-> -1,
                                 before |-> tsnap[t], held |-> AllHeld])
            /\ UNCHANGED tlocal
       ELSE /\ tlocal' = [tlocal EXCEPT ![t] = MinFree(used)]
            /\ tpc' = [tpc EXCEPT ![t] = "acq_add"]
            /\ UNCHANGED <<lock, hist>>
    /\ UNCHANGED <<used, tsnap, holds>>

\* acquire(), line 491: self.used.add(position)
AcquireAdd(t) ==
    /\ TrackerOnly
    /\ tpc[t] = "acq_add"
    /\ used' = used \cup {tlocal[t]}
    /\ tpc' = [tpc EXCEPT ![t] = "acq_ret"]
    /\ UNCHANGED <<lock, tlocal, tsnap, holds, hist>>

\* acquire(), line 492: return position (and leave the with block)
AcquireReturn(t) ==
    /\ TrackerOnly
    /\ tpc[t] = "acq_ret"
    /\ lock' = IF lock = t THEN 0 ELSE lock
    /\ hist' = Remember([op |-> "acquire", th |-> t, slot |-> tlocal[t],
                         before |-> tsnap[t], held |-> AllHeld])
    /\ holds' = [holds EXCEPT ![t] = @ \cup {tlocal[t]}]
    /\ tpc' = [tpc EXCEPT ![t] = "idle"]
    /\ UNCHANGED <<used, tlocal, tsnap>>

\* release(position), line 495: with self.lock. The callers release a slot
\* they were given by acquire.
ReleaseLock(t, p) ==
    /\ TrackerOnly
    /\ tpc[t] = "idle"
    /\ p \in holds[t]
    /\ LockAvailable
    /\ lock' = t
    /\ tlocal' = [tlocal EXCEPT ![t] = p]
    /\ tsnap' = [tsnap EXCEPT ![t] = used]
    /\ tpc' = [tpc EXCEPT ![t] = "rel_remove"]
    /\ UNCHANGED <<used, holds, hist>>

\* release(position), line 496: self.used.remove(position)
ReleaseRemove(t) ==
    /\ TrackerOnly
    /\ tpc[t] = "rel_remove"
    /\ used' = used \ {tlocal[t]}
    /\ lock' = IF lock = t THEN 0 ELSE lock
    /\ holds' = [holds EXCEPT ![t] = @ \ {tlocal[t]}]
    /\ hist' = Remember([op |-> "release", th |-> t, slot |-> tlocal[t],
                         before |-> tsnap[t], held |-> AllHeld])
    /\ tpc' = [tpc EXCEPT ![t] = "idle"]
    /\ UNCHANGED <<tlocal, tsnap>>

InitT ==
    /\ InitLoop
    /\ InitWork
    /\ InitTracker
    /\ InitSeq
    /\ InitNoTree
    /\ syncOf = [i \in Items |-> FALSE]
    /\ truthy = [i \in Items |-> TRUE]

NextT ==
    \/ \E t \in Threads : AcquireLock(t)
    \/ \E t \in Threads : AcquireMin(t)
    \/ \E t \in Threads : AcquireAdd(t)
    \/ \E t \in Threads : AcquireReturn(t)
    \/ \E t \in Threads, p \in Positions : ReleaseLock(t, p)
    \/ \E t \in Threads : ReleaseRemove(t)

SpecTracker == InitT /\ [][NextT]_vars

\* ------------------------------------------------------------- exec_stream

Min(S) == CHOOSE x \in S : \A y \in S : x <= y

Finished(i) == fstate[i] \in {"ok", "exc"}

Running == {i \in Items : fstate[i] = "running"}

YieldedItems == {yielded[k].item : k \in 1..Len(yielded)}

\* What the calling thread's loop leaves alone.
LoopOnly ==
    UNCHANGED <<inputVars, directories, used, wpc, parentId, position, calls,
                madeDirs, trackerVars, seqVars, completed>>

\* The `outcome` key of the value the worker call returned: the asset that
\* create_folder returns carries a `source` and no `outcome` (lines 538-540).
Outcome(i) == IF wpc[i] = "folder_done" THEN "absent" ELSE "opaque"

\* line 357: limiter = Limiter(capacity, rate, MemoryStorage()). The bucket
\* fills again as time passes, up to its size.
Refill ==
    /\ LoopOnly
    /\ tokens < Rate
    /\ tokens' = tokens + 1
    /\ UNCHANGED <<pc, nextIdx, futures, done, yielded, fstate>>

\* line 365: if not limiter.consume("stream", 1)
Consume ==
    /\ LoopOnly
    /\ pc = "consume"
    /\ IF tokens > 0
       THEN tokens' = tokens - 1 /\ pc' = "next"
       ELSE tokens' = tokens /\ pc' = "wait"
    /\ UNCHANGED <<nextIdx, futures, done, yielded, fstate>>

\* lines 366-369: wait(futures, return_when=FIRST_COMPLETED) returns at once
\* on an empty set, and otherwise when at least one future has completed.
WaitFirstCompleted ==
    /\ LoopOnly
    /\ pc = "wait"
    /\ futures = {} \/ \E f \in futures : Finished(f)
    /\ done' = {f \in futures : Finished(f)}
    /\ pc' = "yield"
    /\ UNCHANGED <<nextIdx, futures, tokens, yielded, fstate>>

\* `yield future.result()`: result() returns what the call returned, or raises
\* what the call raised; nothing in the generator catches it, so the generator
\* ends with the exception.
YieldResult(f, back) ==
    /\ f \in done
    /\ f \notin YieldedItems
    /\ IF fstate[f] = "ok"
       THEN /\ yielded' = Append(yielded, [item |-> f, outcome |-> Outcome(f)])
            /\ pc' = back
       ELSE /\ yielded' = yielded
            /\ pc' = "raised"
    /\ UNCHANGED <<nextIdx, futures, done, tokens, fstate>>

\* lines 370-371: for future in done: yield future.result()
YieldDone ==
    /\ LoopOnly
    /\ pc = "yield"
    /\ \E f \in done : YieldResult(f, "yield")

\* lines 373-377: futures = pending, then the sleep of 1/rate
KeepPending ==
    /\ LoopOnly
    /\ pc = "yield"
    /\ done \subseteq YieldedItems
    /\ futures' = futures \ done
    /\ done' = {}
    /\ pc' = "next"
    /\ UNCHANGED <<nextIdx, tokens, yielded, fstate>>

\* lines 379-382: operation = next(iterable, None); if not operation: the
\* producer is exhausted, or the item it supplied is falsy
PullExhausted ==
    /\ LoopOnly
    /\ pc = "next"
    /\ IF nextIdx > NItems
       THEN nextIdx' = nextIdx
       ELSE ~truthy[nextIdx] /\ nextIdx' = nextIdx + 1
    /\ pc' = "drain"
    /\ UNCHANGED <<futures, done, tokens, yielded, fstate>>

\* line 382: done, _ = wait(futures) returns when every future has completed
DrainWait ==
    /\ LoopOnly
    /\ pc = "drain"
    /\ \A f \in futures : Finished(f)
    /\ done' = futures
    /\ pc' = "drainyield"
    /\ UNCHANGED <<nextIdx, futures, tokens, yielded, fstate>>

\* lines 383-384: for future in done: yield future.result()
DrainYield ==
    /\ LoopOnly
    /\ pc = "drainyield"
    /\ \E f \in done : YieldResult(f, "drainyield")

\* line 385: break
DrainBreak ==
    /\ LoopOnly
    /\ pc = "drainyield"
    /\ done \subseteq YieldedItems
    /\ pc' = "done"
    /\ UNCHANGED <<nextIdx, futures, done, tokens, yielded, fstate>>

\* line 387: if sync(operation)
TakesSyncBranch_Never(i) == FALSE

TakesSyncBranch(i) == syncOf[i]

\* lines 379-387: the next item is one with sync(item) true
PullSync ==
    /\ LoopOnly
    /\ pc = "next"
    /\ nextIdx <= NItems
    /\ truthy[nextIdx]
    /\ TakesSyncBranch(nextIdx)
    /\ nextIdx' = nextIdx + 1
    /\ pc' = "sync"
    /\ UNCHANGED <<futures, done, tokens, yielded, fstate>>

\* lines 388-389: yield execute(operation); continue. The worker function runs
\* on the calling thread and returns or raises.
SyncExec ==
    /\ LoopOnly
    /\ pc = "sync"
    /\ \E out \in {"ok", "exc"} :
          /\ fstate' = [fstate EXCEPT ![nextIdx - 1] = out]
          /\ IF out = "ok"
             THEN /\ yielded' = Append(yielded, [item |-> nextIdx - 1,
                                                 outcome |-> "opaque"])
                  /\ pc' = "consume"
             ELSE /\ yielded' = yielded
                  /\ pc' = "raised"
    /\ UNCHANGED <<nextIdx, futures, done, tokens>>

\* lines 379-391: futures.add(executor.submit(execute, operation))
PullSubmit ==
    /\ LoopOnly
    /\ pc = "next"
    /\ nextIdx <= NItems
    /\ truthy[nextIdx]
    /\ ~TakesSyncBranch(nextIdx)
    /\ futures' = futures \cup {nextIdx}
    /\ fstate' = [fstate EXCEPT ![nextIdx] = "queued"]
    /\ nextIdx' = nextIdx + 1
    /\ pc' = "consume"
    /\ UNCHANGED <<done, tokens, yielded>>

\* ------------------------------------------------------------ the thread pool

\* ThreadPoolExecutor(max_workers=capacity): a work item starts when one of
\* the pool's `capacity` threads is idle.
PoolHasIdleWorker_Unbounded == TRUE

PoolHasIdleWorker == Cardinality(Running) < Capacity

\* A pool thread takes the oldest queued work item and calls the worker
\* function. The pool keeps running queued items while the generator waits in
\* the executor's shutdown (after the loop ended or raised).
WorkerStart(i) ==
    /\ fstate[i] = "queued"
    /\ i = Min({j \in Items : fstate[j] = "queued"})
    /\ PoolHasIdleWorker
    /\ fstate' = [fstate EXCEPT ![i] = "running"]
    /\ wpc' = [wpc EXCEPT ![i] = "start"]
    /\ UNCHANGED <<loopVars, inputVars, directories, used, parentId, position,
                   calls, madeDirs, trackerVars, seqVars, completed>>

\* line 361: callable(operation) returns, or raises, in a pool thread
WorkerFinish(i) ==
    /\ fstate[i] = "running"
    /\ wpc[i] = "start"
    /\ \E out \in {"ok", "exc"} : fstate' = [fstate EXCEPT ![i] = out]
    /\ completed' = Append(completed, i)
    /\ wpc' = [wpc EXCEPT ![i] = "returned"]
    /\ UNCHANGED <<loopVars, inputVars, directories, used, parentId, position,
                   calls, madeDirs, trackerVars, seqVars>>

InitExec ==
    /\ InitLoop
    /\ InitWork
    /\ InitTracker
    /\ InitSeq
    /\ InitNoTree
    /\ syncOf \in [Items -> BOOLEAN]
    /\ truthy \in [Items -> BOOLEAN]

NextExec ==
    \/ Refill
    \/ Consume
    \/ WaitFirstCompleted
    \/ YieldDone
    \/ KeepPending
    \/ PullExhausted
    \/ DrainWait
    \/ DrainYield
    \/ DrainBreak
    \/ PullSync
    \/ SyncExec
    \/ PullSubmit
    \/ \E i \in Items : WorkerStart(i)
    \/ \E i \in Items : WorkerFinish(i)

SpecExec == InitExec /\ [][NextExec]_vars

\* ---------------------------------------------------------- the item tree

RECURSIVE AncestorsIn(_, _)
\* The folders above item i, Root left out, under the parent function par.
AncestorsIn(par, i) ==
    IF par[i] = Root THEN {} ELSE {par[i]} \cup AncestorsIn(par, par[i])

Ancestors(i) == AncestorsIn(parent, i)

Descendants(d) == {i \in Items : d \in Ancestors(i)}

\* The queue is handed over sorted by path (UploadQueue.all), and the remote
\* listing is walked depth first: a folder comes before what it contains, and
\* what it contains follows it without interruption.
IsPreorder(par, knd) ==
    /\ \A i \in Items : par[i] < i
    /\ \A i \in Items :
          /\ par[i] # Root => knd[par[i]] = "d"
          /\ i > 1 => par[i] \in {Root, i - 1} \cup AncestorsIn(par, i - 1)

InitTree ==
    /\ kind \in [Items -> {"d", "f"}]
    /\ parent \in [Items -> {Root} \cup Items]
    /\ IsPreorder(parent, kind)

\* ---------------------------------------------------------- upload_handler

\* The id the caller attaches the tree to (item.destination_id).
DestinationId == 1

\* The id the remote side gives the folder created for item i.
FolderId(i) == i + 1

\* What a worker call of upload_handler / download_stream leaves alone.
WorkOnly == UNCHANGED <<loopVars, inputVars, trackerVars, seqVars>>

\* The worker call of item i ends by raising: the future holds the exception.
Raise(i) ==
    /\ fstate' = [fstate EXCEPT ![i] = "exc"]
    /\ completed' = Append(completed, i)
    /\ wpc' = [wpc EXCEPT ![i] = "raised"]

\* lines 508-511: create_asset raises when the parent id is missing;
\* otherwise it posts to the remote side, which answers or fails.
CreateAsset(i, ok, failed) ==
    /\ calls' = calls \cup {[item |-> i, kind |-> kind[i],
                             given |-> parentId[i] # 0,
                             indexed |-> directories[parent[i]] # 0]}
    /\ IF parentId[i] = 0
       THEN Raise(i)
       ELSE \E answer \in {"asset", "error"} :
               IF answer = "asset"
               THEN /\ wpc' = [wpc EXCEPT ![i] = ok]
                    /\ UNCHANGED <<fstate, completed>>
               ELSE /\ wpc' = [wpc EXCEPT ![i] = failed]
                    /\ fstate' = [fstate EXCEPT ![i] = "exc"]
                    /\ completed' = Append(completed, i)

\* lines 582-596: process_queued_item, up to the call of upload_file or
\* create_folder. When the parent path has no entry the origin path is
\* entered with the destination id.
ProcessQueuedItem(i) ==
    /\ WorkOnly
    /\ fstate[i] = "running"
    /\ wpc[i] = "start"
    /\ directories' = IF directories[parent[i]] # 0
                      THEN directories
                      ELSE [directories EXCEPT ![Root] = DestinationId]
    /\ wpc' = [wpc EXCEPT ![i] = IF kind[i] = "f" THEN "file_lookup"
                                                 ELSE "folder_lookup"]
    /\ UNCHANGED <<fstate, completed, used, parentId, position, calls, madeDirs>>

\* lines 544-551: parent_id = directories.get(filepath.parent)
UploadFileLookup(i) ==
    /\ WorkOnly
    /\ wpc[i] = "file_lookup"
    /\ parentId' = [parentId EXCEPT ![i] = directories[parent[i]]]
    /\ wpc' = [wpc EXCEPT ![i] = "file_acquire"]
    /\ UNCHANGED <<fstate, completed, directories, used, position, calls, madeDirs>>

\* line 552: position = tracker.acquire(), one step under the tracker's lock.
\* With every slot held, min([]) raises ValueError.
UploadFileAcquire(i) ==
    /\ WorkOnly
    /\ wpc[i] = "file_acquire"
    /\ IF Free(used) = {}
       THEN Raise(i) /\ UNCHANGED <<used, position>>
       ELSE /\ position' = [position EXCEPT ![i] = MinFree(used)]
            /\ used' = used \cup {MinFree(used)}
            /\ wpc' = [wpc EXCEPT ![i] = "file_create"]
            /\ UNCHANGED <<fstate, completed>>
    /\ UNCHANGED <<directories, parentId, calls, madeDirs>>

\* lines 553-562: asset = create_asset(client, parent_id, {... "type": "file"})
UploadFileCreate(i) ==
    /\ WorkOnly
    /\ wpc[i] = "file_create"
    /\ CreateAsset(i, "file_uploader", "raised")
    /\ UNCHANGED <<directories, used, parentId, position, madeDirs>>

\* lines 563-571: FrameioUploader(asset, filepath, position,
\* progress_callback=...). FrameioUploader.__init__ (uploader.py line 20)
\* takes asset, filepath and position only, so the call raises TypeError.
\* Lines 572-580 (upload, tracker.release, the outcome) are not reached.
UploadFileConstruct(i) ==
    /\ WorkOnly
    /\ wpc[i] = "file_uploader"
    /\ Raise(i)
    /\ UNCHANGED <<directories, used, parentId, position, calls, madeDirs>>

\* line 532: parent_id = directories.get(folder.parent)
CreateFolderLookup(i) ==
    /\ WorkOnly
    /\ wpc[i] = "folder_lookup"
    /\ parentId' = [parentId EXCEPT ![i] = directories[parent[i]]]
    /\ wpc' = [wpc EXCEPT ![i] = "folder_create"]
    /\ UNCHANGED <<fstate, completed, directories, used, position, calls, madeDirs>>

\* lines 533-537: asset = create_asset(client, parent_id, {"type": "folder"})
CreateFolderCreate(i) ==
    /\ WorkOnly
    /\ wpc[i] = "folder_create"
    /\ CreateAsset(i, "folder_store", "folder_failed")
    /\ UNCHANGED <<directories, used, parentId, position, madeDirs>>

\* lines 538-540 and 603-608: directories[folder] = asset["id"]; the asset,
\* with its source, is the worker call's result.
CreateFolderStore(i) ==
    /\ WorkOnly
    /\ wpc[i] = "folder_store"
    /\ directories' = [directories EXCEPT ![i] = FolderId(i)]
    /\ wpc' = [wpc EXCEPT ![i] = "folder_done"]
    /\ fstate' = [fstate EXCEPT ![i] = "ok"]
    /\ completed' = Append(completed, i)
    /\ UNCHANGED <<used, parentId, position, calls, madeDirs>>

\* lines 610-614: exec_stream(process_queued_item, queued_items,
\* capacity=capacity): no sync argument, so sync is lambda _: False.
InitUpload ==
    /\ InitLoop
    /\ InitWork
    /\ InitTracker
    /\ InitSeq
    /\ InitTree
    /\ syncOf = [i \in Items |-> FALSE]
    /\ truthy = [i \in Items |-> TRUE]

NextUpload ==
    \/ Refill
    \/ Consume
    \/ WaitFirstCompleted
    \/ YieldDone
    \/ KeepPending
    \/ PullExhausted
    \/ DrainWait
    \/ DrainYield
    \/ DrainBreak
    \/ PullSubmit
    \/ \E i \in Items : WorkerStart(i)
    \/ \E i \in Items : ProcessQueuedItem(i)
    \/ \E i \in Items : UploadFileLookup(i)
    \/ \E i \in Items : UploadFileAcquire(i)
    \/ \E i \in Items : UploadFileCreate(i)
    \/ \E i \in Items : UploadFileConstruct(i)
    \/ \E i \in Items : CreateFolderLookup(i)
    \/ \E i \in Items : CreateFolderCreate(i)
    \/ \E i \in Items : CreateFolderStore(i)

SpecUpload == InitUpload /\ [][NextUpload]_vars

\* --------------------------------------------- parallelize, download_stream

\* utils.py line 396, executor.map: every item of the iterable is submitted
\* to the pool, in order, before the first result is asked for.
MapSubmit ==
    /\ LoopOnly
    /\ pc = "map_submit"
    /\ nextIdx <= NItems
    /\ fstate' = [fstate EXCEPT ![nextIdx] = "queued"]
    /\ nextIdx' = nextIdx + 1
    /\ UNCHANGED <<pc, futures, done, tokens, yielded>>

\* utils.py line 396: the iterable is exhausted, map returns its iterator
MapSubmitted ==
    /\ LoopOnly
    /\ pc = "map_submit"
    /\ nextIdx > NItems
    /\ pc' = "map_results"
    /\ UNCHANGED <<nextIdx, futures, done, tokens, yielded, fstate>>

\* utils.py lines 396-397: results are yielded in submission order. A call
\* that raised is re-raised by result(): the iterator cancels the futures
\* that have not started and the generator ends with the exception.
MapYield ==
    /\ LoopOnly
    /\ pc = "map_results"
    /\ Len(yielded) < NItems
    /\ Finished(Len(yielded) + 1)
    /\ IF fstate[Len(yielded) + 1] = "ok"
       THEN /\ yielded' = Append(yielded, [item |-> Len(yielded) + 1,
                                           outcome |-> "opaque"])
            /\ UNCHANGED <<pc, fstate>>
       ELSE /\ fstate' = [i \in Items |-> IF fstate[i] = "queued"
                                          THEN "cancelled" ELSE fstate[i]]
            /\ pc' = "raised"
            /\ yielded' = yielded
    /\ UNCHANGED <<nextIdx, futures, done, tokens>>

\* utils.py lines 396-397: every result was yielded
MapEnd ==
    /\ LoopOnly
    /\ pc = "map_results"
    /\ Len(yielded) = NItems
    /\ pc' = "done"
    /\ UNCHANGED <<nextIdx, futures, done, tokens, yielded, fstate>>

\* assets.py lines 465-471: make_asset on a folder record: os.makedirs(name,
\* exist_ok=True) creates the directory and the missing ones above it.
MakeFolder(i) ==
    /\ WorkOnly
    /\ fstate[i] = "running"
    /\ wpc[i] = "start"
    /\ kind[i] = "d"
    /\ madeDirs' = madeDirs \cup {i} \cup Ancestors(i)
    /\ fstate' = [fstate EXCEPT ![i] = "ok"]
    /\ completed' = Append(completed, i)
    /\ wpc' = [wpc EXCEPT ![i] = "folder_made"]
    /\ UNCHANGED <<directories, used, parentId, position, calls>>

\* assets.py lines 457-460, 469-471: make_asset on a file record, up to
\* position = tracker.acquire()
DownloadAcquire(i) ==
    /\ WorkOnly
    /\ fstate[i] = "running"
    /\ wpc[i] = "start"
    /\ kind[i] = "f"
    /\ IF Free(used) = {}
       THEN Raise(i) /\ UNCHANGED <<used, position>>
       ELSE /\ position' = [position EXCEPT ![i] = MinFree(used)]
            /\ used' = used \cup {MinFree(used)}
            /\ wpc' = [wpc EXCEPT ![i] = "dl_transfer"]
            /\ UNCHANGED <<fstate, completed>>
    /\ UNCHANGED <<directories, parentId, calls, madeDirs>>

\* assets.py line 461: utils.download(url, name, ...): urlretrieve writes the
\* file `name`; it raises when the transfer fails and when the directory the
\* file goes into does not exist.
DownloadTransfer(i) ==
    /\ WorkOnly
    /\ wpc[i] = "dl_transfer"
    /\ IF parent[i] \notin madeDirs
       THEN Raise(i)
       ELSE \E answer \in {"saved", "error"} :
               IF answer = "saved"
               THEN /\ wpc' = [wpc EXCEPT ![i] = "dl_release"]
                    /\ UNCHANGED <<fstate, completed>>
               ELSE Raise(i)
    /\ UNCHANGED <<directories, used, parentId, position, calls, madeDirs>>

\* assets.py lines 462-463: tracker.release(position); return the record
DownloadRelease(i) ==
    /\ WorkOnly
    /\ wpc[i] = "dl_release"
    /\ used' = used \ {position[i]}
    /\ position' = [position EXCEPT ![i] = -1]
    /\ fstate' = [fstate EXCEPT ![i] = "ok"]
    /\ completed' = Append(completed, i)
    /\ wpc' = [wpc EXCEPT ![i] = "downloaded"]
    /\ UNCHANGED <<directories, parentId, calls, madeDirs>>

\* assets.py lines 453-454 and 473-475: the root directory is made, then the
\* records of remote_folder_stream go through parallelize.
InitDownload ==
    /\ pc = "map_submit"
    /\ nextIdx = 1
    /\ futures = {}
    /\ done = {}
    /\ tokens = Rate
    /\ yielded = <<>>
    /\ fstate = [i \in Items |-> "new"]
    /\ completed = <<>>
    /\ directories = [n \in 0..NItems |-> 0]
    /\ used = {}
    /\ wpc = [i \in Items |-> "none"]
    /\ parentId = [i \in Items |-> 0]
    /\ position = [i \in Items |-> -1]
    /\ calls = {}
    /\ madeDirs = {Root}
    /\ InitTracker
    /\ InitSeq
    /\ InitTree
    /\ syncOf = [i \in Items |-> FALSE]
    /\ truthy = [i \in Items |-> TRUE]

NextDownload ==
    \/ MapSubmit
    \/ MapSubmitted
    \/ MapYield
    \/ MapEnd
    \/ \E i \in Items : WorkerStart(i)
    \/ \E i \in Items : MakeFolder(i)
    \/ \E i \in Items : DownloadAcquire(i)
    \/ \E i \in Items : DownloadTransfer(i)
    \/ \E i \in Items : DownloadRelease(i)

SpecDownload == InitDownload /\ [][NextDownload]_vars

\* ------------------------------------------- the parts that run in one thread

\* The variables of the thread pool, the workers and the tracker, which the
\* sequential parts below leave alone.
concVars == <<loopVars, fstate, completed, inputVars, directories, used, wpc,
              parentId, position, calls, madeDirs, trackerVars>>

InitConc ==
    /\ InitLoop
    /\ InitWork
    /\ InitTracker
    /\ InitNoTree
    /\ syncOf = [i \in Items |-> FALSE]
    /\ truthy = [i \in Items |-> TRUE]

Min2(a, b) == IF a <= b THEN a ELSE b

\* --------------------------------------------------------- FrameioUploader

\* int(math.ceil(a / b)) for a >= 0 and b >= 1
CeilDiv_Floor(a, b) == a \div b

CeilDiv(a, b) == (a + b - 1) \div b

\* line 40: offset_amount = index * self.chunk_size
OffsetAmount(index, size) == index * size

\* file.seek(offset, 0) followed by file.read(n) on a file of `size` bytes
\* (n < 0: file.read(), to the end of the file): where the read started and
\* how many bytes it returned. A read never goes past the end of the file,
\* and a read that starts at or after the end returns nothing.
FileRead_ToEnd(size, offset, n) ==
    [from |-> offset,
     len  |-> IF offset >= size THEN 0 ELSE size - offset]

FileRead(size, offset, n) ==
    [from |-> offset,
     len  |-> IF offset >= size THEN 0
              ELSE IF n < 0 THEN size - offset
              ELSE Min2(n, size - offset)]

\* The chunk has not been read.
NotRead == [from |-> -1, len |-> -1]

UploaderOnly == UNCHANGED <<concVars, rt, remote, px, util>>

\* lines 20-28: FrameioUploader(asset, filepath) for an asset of S bytes with
\* N upload URLs; the file on disk has the S bytes the asset was created with.
NewUploader(S, N) ==
    [filesize |-> S, chunks_num |-> N, chunk_size |-> -1,
     chunk_offsets |-> <<>>, reads |-> [c \in 1..N |-> NotRead],
     pc |-> "new"]

\* lines 31-42: _calculate_chunks sets self.chunk_size and returns the list of
\* offsets (chunk id c is element c + 1).
CalculateChunks ==
    /\ uploader.pc = "new"
    /\ uploader' =
         [uploader EXCEPT
            !.chunk_size = CeilDiv(uploader.filesize, uploader.chunks_num),
            !.chunk_offsets =
                [c \in 1..uploader.chunks_num |->
                    OffsetAmount(c - 1, CeilDiv(uploader.filesize,
                                                uploader.chunks_num))],
            !.pc = "chunked"]
    /\ UploaderOnly

\* lines 64-65 and 51-60: the task of chunk id c reads its data; the final
\* chunk reads to the end of the file, the others read chunk_size bytes.
SmartReadChunk(c) ==
    /\ uploader.pc = "chunked"
    /\ uploader.reads[c + 1] = NotRead
    /\ LET is_final_chunk == (c + 1 = uploader.chunks_num)
       IN  uploader' =
             [uploader EXCEPT
                !.reads[c + 1] =
                    FileRead(uploader.filesize, uploader.chunk_offsets[c + 1],
                             IF is_final_chunk THEN -1
                             ELSE uploader.chunk_size)]
    /\ UploaderOnly

InitChunks ==
    /\ InitConc
    /\ rt = NoRetry
    /\ remote = NoRemote
    /\ px = NoProxy
    /\ util = NoUtil
    /\ \E S \in 0..MaxSize, N \in 1..MaxUrls : uploader = NewUploader(S, N)

NextChunks ==
    \/ CalculateChunks
    \/ \E c \in 0..(MaxUrls - 1) : c < uploader.chunks_num /\ SmartReadChunk(c)

SpecChunks == InitChunks /\ [][NextChunks]_vars

\* upload(), lines 92-126. Line 93 is CalculateChunks. Lines 94-105 open the
\* progress bar and a pool of five threads; line 106 then evaluates
\* time.start(), which the time module does not have: AttributeError. No chunk
\* has been submitted, so both `with` blocks exit at once and the exception
\* reaches the caller of upload().
UploadStartTimer ==
    /\ uploader.pc = "chunked"
    /\ uploader' = [uploader EXCEPT !.pc = "raised"]
    /\ UploaderOnly

InitJob == InitChunks

NextJob ==
    \/ CalculateChunks
    \/ UploadStartTimer

SpecJob == InitJob /\ [][NextJob]_vars

\* ------------------------------------------------------------------- retry

\* line 465: max_retry_time_sec: int = 4
DefaultMaxRetryTimeSec == 4

\* The values of max_retry_time_sec that callers pass: below the default, the
\* default, and the 1920 of uploader.py line 78.
Caps == {1, DefaultMaxRetryTimeSec, 1920}

\* The interpreter's limit on nested calls (sys.getrecursionlimit(), which the
\* program never changes): line 475 nests one call of retry per failure.
RecursionLimit == 1000

\* line 470: min(0.5 * math.pow(2, attempt), retry_time_sleep), counted in
\* half seconds. From attempt 20 on the power is above every limit in Caps, so
\* the minimum is the limit and the power need not be computed.
SleepHalfSec(attempt, limit) ==
    IF attempt >= 20 THEN 2 * limit ELSE Min2(2 ^ attempt, 2 * limit)

RetryOnly == UNCHANGED <<concVars, uploader, remote, px, util>>

\* The last two sleeps, the newest last.
RememberSleep(s) ==
    IF Len(rt.sleeps) < 2 THEN Append(rt.sleeps, s) ELSE <<rt.sleeps[2], s>>

\* lines 466-467: a caller calls retry(callable, ..., max_retry_time_sec=cap)
NewRetry(cap) ==
    [max_retry_time_sec |-> cap, retry_time_sleep |-> cap, attempt |-> 0,
     calls |-> 0, sleeps |-> <<>>, response |-> "unset", result |-> "unset",
     pc |-> "call"]

\* lines 468-469: callable(*args, **kwargs) raises, or it returns a value
\* (for session.put a response, with its status). Line 468 is an expression
\* statement and line 475 is one too: the value is dropped, retry has no
\* return statement, and every frame of retry returns None.
RetryCall ==
    /\ rt.pc = "call"
    /\ \/ rt' = [rt EXCEPT !.calls = rt.calls + 1, !.pc = "failed"]
       \/ \E status \in {"200", "500"} :
             rt' = [rt EXCEPT !.calls = rt.calls + 1,
                              !.response = status,
                              !.result = "None",
                              !.pc = "returned"]
    /\ RetryOnly

\* lines 470-475: the handler sleeps, then calls retry again with
\* attempt + 1 and without max_retry_time_sec, so the new frame's limit is the
\* default. The nested call raises RecursionError, out of every handler on the
\* stack, when the frames are used up.
RetrySleepAndRecurse ==
    /\ rt.pc = "failed"
    /\ LET slept == [attempt |-> rt.attempt,
                     half |-> SleepHalfSec(rt.attempt, rt.retry_time_sleep)]
       IN  rt' = [rt EXCEPT
                    !.sleeps = RememberSleep(slept),
                    !.attempt = rt.attempt + 1,
                    !.retry_time_sleep =
                        IF rt.attempt + 1 < RecursionLimit
                        THEN DefaultMaxRetryTimeSec ELSE rt.retry_time_sleep,
                    !.pc = IF rt.attempt + 1 < RecursionLimit
                           THEN "call" ELSE "raised"]
    /\ RetryOnly

InitRetry ==
    /\ InitConc
    /\ uploader = NoUploader
    /\ remote = NoRemote
    /\ px = NoProxy
    /\ util = NoUtil
    /\ \E cap \in Caps : rt = NewRetry(cap)

NextRetry ==
    \/ RetryCall
    \/ RetrySleepAndRecurse

SpecRetry == InitRetry /\ [][NextRetry]_vars

\* ---------------------------------------------------- remote_folder_stream

Nodes == 1..NNodes

\* asset["_type"]
AssetTypes == {"folder", "file", "version_stack"}

\* A file or folder name is a stem, the running suffixes appended to it
\* ("_2" is <<2>>) and an extension as os.path.splitext finds it ("" or one
\* that starts with a dot). A path is the sequence of its components.
RemoteNames ==
    {[stem |-> "a", sfx |-> <<>>, ext |-> ""],
     [stem |-> "a", sfx |-> <<2>>, ext |-> ""],
     [stem |-> "a", sfx |-> <<>>, ext |-> ".mov"]}

\* The path component "versions" of line 497.
Versions == [stem |-> "versions", sfx |-> <<>>, ext |-> ""]

\* lines 482-483: sibling_counter[name] after the increment for child c of
\* parent p: the children of p listed up to c that have c's name. (The
\* counter's key is the joined path; under one root it is the asset's name.)
SiblingCount_Before(p, c) ==
    Cardinality({d \in 1..(c - 1) :
                    remote.parent[d] = p /\ remote.name[d] = remote.name[c]})

SiblingCount(p, c) ==
    Cardinality({d \in 1..c :
                    remote.parent[d] = p /\ remote.name[d] = remote.name[c]})

\* lines 482-486: os.path.join(root, asset["name"]), and from the second
\* sibling of that name on, base and ext of os.path.splitext put together
\* again with _n between them.
LocalName(root, name, n) ==
    IF n > 1
    THEN Append(root, [name EXCEPT !.sfx = Append(name.sfx, n)])
    ELSE Append(root, name)

\* lines 479-505: the records remote_folder_stream(client, p, root, rv)
\* yields for the children of p listed from asset `from` on, in the order it
\* yields them. A child's own children are listed after it. The nested calls
\* of lines 491 and 496-498 do not pass recurse_vs, so below the first level
\* it is False.
RECURSIVE Stream(_, _, _, _)
Stream(p, root, rv, from) ==
    IF from > NNodes THEN <<>>
    ELSE IF remote.parent[from] # p THEN Stream(p, root, rv, from + 1)
    ELSE
      LET name == LocalName(root, remote.name[from], SiblingCount(p, from))
          self == [name |-> name, asset |-> from, as |-> "self"]
          own ==
            IF remote.type[from] = "folder"
            THEN <<self>> \o Stream(from, name, FALSE, from + 1)
            ELSE IF rv /\ remote.type[from] = "version_stack"
            THEN <<self>> \o
                 Stream(from, Append(name, Versions), FALSE, from + 1)
            ELSE IF remote.type[from] = "version_stack"
            THEN <<[name |-> name, asset |-> from, as |-> "cover"]>>
            ELSE <<self>>
      IN  own \o Stream(p, root, rv, from + 1)

RemoteOnly == UNCHANGED <<concVars, uploader, rt, px, util>>

\* The whole stream of one call at the top of the tree: assets.py line 110
\* (traverse: recurse_vs=True) or line 474 (download_stream: the default).
Traverse ==
    /\ remote.pc = "new"
    /\ remote' = [remote EXCEPT
                    !.emitted = Stream(Root, <<>>, remote.recurse_vs, 1),
                    !.pc = "done"]
    /\ RemoteOnly

\* A remote tree: every asset's parent is the top or an asset listed before
\* it that can have children.
InitRemote ==
    /\ InitConc
    /\ uploader = NoUploader
    /\ rt = NoRetry
    /\ px = NoProxy
    /\ util = NoUtil
    /\ \E ty \in [Nodes -> AssetTypes], nm \in [Nodes -> RemoteNames],
          par \in [Nodes -> 0..(NNodes - 1)], rv \in BOOLEAN :
          /\ \A c \in Nodes : par[c] < c
          /\ \A c \in Nodes : par[c] # Root => ty[par[c]] # "file"
          /\ remote = [type |-> ty, name |-> nm, parent |-> par,
                       recurse_vs |-> rv, emitted |-> <<>>, pc |-> "new"]

NextRemote == Traverse

SpecRemote == InitRemote /\ [][NextRemote]_vars

\* --------------------------------------------------------------- get_proxy

\* lines 23-30: PROXY_TABLE, with .get((level, asset_type), []) of line 445
ProxyTable(level, asset_type) ==
    CASE level = "high"   /\ asset_type = "stream" ->
            <<"h264_2160", "h264_1080_best">>
      [] level = "medium" /\ asset_type = "stream" -> <<"h264_720">>
      [] level = "low"    /\ asset_type = "stream" -> <<"h264_540", "h264_360">>
      [] level = "high"   /\ asset_type = "image"  -> <<"image_high">>
      [] level = "medium" /\ asset_type = "image"  -> <<"image_full">>
      [] level = "low"    /\ asset_type = "image"  -> <<"image_small">>
      [] OTHER -> <<>>

\* line 32
PROXY_CASCADE == <<"high", "medium", "low">>

Tiers == {PROXY_CASCADE[k] : k \in 1..Len(PROXY_CASCADE)}

\* The rendition keys an asset can carry besides `original`, which every
\* asset has.
Renditions ==
    {"h264_2160", "h264_1080_best", "h264_720", "h264_540", "h264_360",
     "image_high", "image_full", "image_small"}

\* The values of asset["asset_type"]; "absent": the asset has no such key.
AssetTypeValues == {"absent", "stream", "image", "document", "audio"}

\* The `proxy` argument: none, original, a tier, a rendition by name.
ProxyRequests == {"", "original", "h264_720"} \cup Tiers

\* asset[key]: the URL stored under the key
Url(key) == <<"url", key>>

\* A returned tuple (name, url), and a returned bare value.
Pair(name) == [pair |-> TRUE, name |-> name, value |-> Url(name)]

Bare(value) == [pair |-> FALSE, name |-> "", value |-> value]

\* lines 432-436: the local asset_type
FamilyOf_StreamUnlessDocument(asset_type) ==
    IF asset_type = "document" THEN "image" ELSE "stream"

FamilyOf(asset_type) ==
    IF asset_type = "document" THEN "image"
    ELSE IF asset_type = "absent" THEN "stream"
    ELSE asset_type

\* PROXY_CASCADE.index(proxy)
IndexOf(proxy) == CHOOSE k \in 1..Len(PROXY_CASCADE) : PROXY_CASCADE[k] = proxy

\* line 444: PROXY_CASCADE[idx:], as the positions of the levels gone through
CascadeFrom_Top(idx) == 1..Len(PROXY_CASCADE)

CascadeFrom(idx) == idx..Len(PROXY_CASCADE)

\* lines 445-447 for one level: the first candidate the asset has a non-empty
\* value for, or "" when the level has none. px.asset is the set of rendition
\* keys with a non-empty value.
FirstAt(level, asset_type) ==
    LET row == ProxyTable(level, asset_type)
        hits == {k \in 1..Len(row) : row[k] \in px.asset}
    IN  IF hits = {} THEN "" ELSE row[Min(hits)]

\* lines 444-449: the levels in order; nothing found: original
Cascade(idx, asset_type) ==
    LET hits == {k \in CascadeFrom(idx) :
                    FirstAt(PROXY_CASCADE[k], asset_type) # ""}
    IN  IF hits = {} THEN Pair("original")
        ELSE Pair(FirstAt(PROXY_CASCADE[Min(hits)], asset_type))

ProxyOnly == UNCHANGED <<concVars, uploader, rt, remote, util>>

\* lines 431-449: get_proxy(asset, proxy)
GetProxy ==
    /\ px.pc = "new"
    /\ LET asset_type == FamilyOf(px.asset_type)
           result ==
             IF px.proxy = "" \/ px.proxy = "original" THEN Pair("original")
             ELSE IF px.proxy \notin Tiers
             THEN Bare(IF px.proxy \in px.asset THEN Url(px.proxy)
                       ELSE <<"None">>)
             ELSE Cascade(IndexOf(px.proxy), asset_type)
       IN  px' = [px EXCEPT !.family = asset_type, !.result = result,
                            !.pc = "done"]
    /\ ProxyOnly

InitProxy ==
    /\ InitConc
    /\ uploader = NoUploader
    /\ rt = NoRetry
    /\ remote = NoRemote
    /\ util = NoUtil
    /\ \E have \in SUBSET Renditions, ty \in AssetTypeValues,
          req \in ProxyRequests :
          px = [asset |-> have, asset_type |-> ty, proxy |-> req,
                family |-> "", result |-> <<>>, pc |-> "new"]

NextProxy == GetProxy

SpecProxy == InitProxy /\ [][NextProxy]_vars

\* ----------------------------------------------------------- merge_streams

UtilOnly == UNCHANGED <<concVars, uploader, rt, remote, px>>

\* lines 330-334: enqueue(stream, idx). next(stream, None) takes the stream's
\* next element, if it has one; `if not head: return` leaves the heap alone
\* when the stream is exhausted and when the element taken is falsy (0, "",
\* an empty container); any other head is pushed with its key and idx.
\* Streams are numbered from 1 here; a heap entry names its element by
\* stream and position.
Enqueue(u, idx) ==
    IF u.fetched[idx] = Len(u.streams[idx]) THEN u
    ELSE LET pos == u.fetched[idx] + 1
             head == u.streams[idx][pos]
         IN  [u EXCEPT
                !.fetched[idx] = pos,
                !.heap = IF head.truthy
                         THEN @ \cup {[key |-> head.key, idx |-> idx,
                                       pos |-> pos]}
                         ELSE @]

\* lines 336-337: for idx, stream in enumerate(streams): enqueue(stream, idx)
MergeFirst ==
    /\ util.pc = "first"
    /\ util' = [Enqueue(util, util.idx) EXCEPT
                  !.idx = @ + 1,
                  !.pc = IF util.idx = NStreams THEN "loop" ELSE "first"]
    /\ UtilOnly

\* lines 339-341: heappop gives the entry least by (key, idx); its element is
\* yielded. With the heap empty the generator ends.
MergeYield ==
    /\ util.pc = "loop"
    /\ util.heap # {}
    /\ LET top == CHOOSE e \in util.heap :
                     \A f \in util.heap :
                        e.key < f.key \/ (e.key = f.key /\ e.idx <= f.idx)
       IN  util' = [util EXCEPT
                      !.heap = @ \ {top},
                      !.out = Append(@, [idx |-> top.idx, pos |-> top.pos]),
                      !.idx = top.idx,
                      !.pc = "yielded"]
    /\ UtilOnly

\* line 342: enqueue(stream, idx) for the stream the yielded element was from
MergeEnqueue ==
    /\ util.pc = "yielded"
    /\ util' = [Enqueue(util, util.idx) EXCEPT !.pc = "loop"]
    /\ UtilOnly

\* merge_streams(*streams, key=...) on NStreams streams, each sorted by key;
\* an element is its key and whether it is truthy.
InitMerge ==
    /\ InitConc
    /\ uploader = NoUploader
    /\ rt = NoRetry
    /\ remote = NoRemote
    /\ px = NoProxy
    /\ \E ss \in [1..NStreams ->
                    UNION {[1..n -> [key : 1..MaxKey, truthy : BOOLEAN]] :
                              n \in 0..MaxStreamLen}] :
          /\ \A i \in 1..NStreams : \A k \in 1..(Len(ss[i]) - 1) :
                ss[i][k].key <= ss[i][k + 1].key
          /\ util = [streams |-> ss, fetched |-> [i \in 1..NStreams |-> 0],
                     heap |-> {}, out |-> <<>>, idx |-> 1, pc |-> "first"]

NextMerge ==
    \/ MergeFirst
    \/ MergeYield
    \/ MergeEnqueue

SpecMerge == InitMerge /\ [][NextMerge]_vars

\* ------------------------------------------- create_include_exclude_filter

\* lines 316-323: the filter is built from the two options and called on a
\* name. An option that was given is re.search with its pattern (utils.py
\* lines 200-206), here the set of names the pattern is found in; one that
\* was not given is None and is replaced, include and exclude alike, by
\* lambda value: True.
ApplyFilter ==
    /\ util.pc = "new"
    /\ LET re_include == IF util.include.given
                         THEN util.value \in util.include.found ELSE TRUE
           re_exclude == IF util.exclude.given
                         THEN util.value \in util.exclude.found ELSE TRUE
       IN  util' = [util EXCEPT !.result = re_include /\ ~re_exclude,
                                !.pc = "done"]
    /\ UtilOnly

InitFilter ==
    /\ InitConc
    /\ uploader = NoUploader
    /\ rt = NoRetry
    /\ remote = NoRemote
    /\ px = NoProxy
    /\ LET Options == {[given |-> FALSE, found |-> {}]} \cup
                      [given : {TRUE}, found : SUBSET (1..NNames)]
       IN  \E inc \in Options, exc \in Options, x \in 1..NNames :
              util = [include |-> inc, exclude |-> exc, value |-> x,
                      result |-> FALSE, pc |-> "new"]

SpecFilter == InitFilter /\ [][ApplyFilter]_vars

\* ------------------------------------------------------- stream_fs_pathlib

\* lines 450-462: one turn of `for directory, dirs, files in root.walk()`.
\* walk() goes top down: it gives a directory's own listing, then walks each
\* entry of dirs in turn, every one of them, since the loop body takes
\* nothing out of dirs. Of the listing, the directories filter_d accepts are
\* yielded, then the files filter_f accepts.
WalkDirectory ==
    /\ util.pc = "walk"
    /\ util.stack # <<>>
    /\ LET directory == Head(util.stack)
           RECURSIVE InOrder(_)
           InOrder(S) ==
               IF S = {} THEN <<>>
               ELSE LET e == CHOOSE x \in S : \A y \in S : x <= y
                    IN  <<e>> \o InOrder(S \ {e})
           dirs == {c \in Items : util.parent[c] = directory
                                  /\ util.kind[c] = "d"}
           files == {c \in Items : util.parent[c] = directory
                                   /\ util.kind[c] = "f"}
       IN  util' = [util EXCEPT
                      !.out = @ \o InOrder({d \in dirs : util.accepts[d]})
                                \o InOrder({f \in files : util.accepts[f]}),
                      !.stack = InOrder(dirs) \o Tail(@),
                      !.pc = IF dirs = {} /\ Tail(util.stack) = <<>>
                             THEN "done" ELSE "walk"]
    /\ UtilOnly

\* stream_fs_pathlib(root, filter_d, filter_f) on a disk tree: every entry
\* is a directory or a file and lies in the root or in a directory; accepts
\* is what the filter of its kind answers for its name.
InitWalk ==
    /\ InitConc
    /\ uploader = NoUploader
    /\ rt = NoRetry
    /\ remote = NoRemote
    /\ px = NoProxy
    /\ \E knd \in [Items -> {"d", "f"}], par \in [Items -> {Root} \cup Items],
          acc \in [Items -> BOOLEAN] :
          /\ \A i \in Items : par[i] < i
          /\ \A i \in Items : par[i] # Root => knd[par[i]] = "d"
          /\ util = [kind |-> knd, parent |-> par, accepts |-> acc,
                     stack |-> <<Root>>, out |-> <<>>, pc |-> "walk"]

SpecWalk == InitWalk /\ [][WalkDirectory]_vars

\* ==================================================================== claims

\* ---------------------------------------------------------------- C1
\* Operations submitted to the worker pool that have not completed.
InFlight == {i \in Items : fstate[i] \in {"queued", "running"}}

\* C1 as claimed: the number of operations submitted to the worker pool and
\* not yet completed never exceeds the capacity.
C1_InFlightAtMostCapacity == Cardinality(InFlight) <= Capacity

\* C1 as amended: the number of operations that pool threads are executing
\* never exceeds the capacity (operations submitted beyond that wait in the
\* pool's queue, and the number submitted and not completed may exceed it).
C1_RunningAtMostCapacity == Cardinality(Running) <= Capacity

\* Every pool thread is busy and a further submitted operation is waiting.
C1_Witness ==
    /\ Cardinality(Running) = Capacity
    /\ \E i \in Items : fstate[i] = "queued"

\* ---------------------------------------------------------------- C2
\* C2: a worker call that raises does not end the result stream: once the
\* generator has ended, it ended by exhausting the producer (here one whose
\* items are all truthy), and every item whose worker call returned has had
\* its result yielded.
C2_WorkerFailureIsolated ==
    (pc \in {"done", "raised"} /\ \A i \in Items : truthy[i]) =>
        /\ pc = "done"
        /\ nextIdx > NItems
        /\ \A i \in Items : fstate[i] = "ok" => i \in YieldedItems

\* ---------------------------------------------------------------- C3
\* C3: an item with sync(item) true is never handed to the pool; no item that
\* follows it in the producer is pulled before its result has been yielded;
\* and the results of sync items are yielded in producer order.
C3_SyncInPlace ==
    /\ \A i \in Items :
          syncOf[i] => fstate[i] \notin {"queued", "running"} /\ i \notin futures
    /\ \A i, j \in Items :
          (syncOf[i] /\ i < j /\ j < nextIdx) => i \in YieldedItems
    /\ \A a, b \in 1..Len(yielded) :
          (a < b /\ syncOf[yielded[a].item] /\ syncOf[yielded[b].item])
              => yielded[a].item < yielded[b].item

\* A sync item's result was yielded and a later item pulled while an earlier
\* asynchronous operation is still in flight.
C3_Witness ==
    \E a, i, j \in Items :
        /\ a < i /\ i < j
        /\ ~syncOf[a] /\ fstate[a] \in {"queued", "running"}
        /\ syncOf[i] /\ i \in YieldedItems
        /\ j < nextIdx

\* ---------------------------------------------------------------- C4
\* C4: at every create_asset call that upload_file makes for a file, the
\* parent id handed to create_asset is present and the Directory Index holds
\* the id of the file's parent directory.
C4_ParentIndexedAtFileCreate ==
    \A c \in calls : c.kind = "f" => c.given /\ c.indexed

\* ---------------------------------------------------------------- C5
\* The generator has ended and the pool has run every submitted call.
RunEnded ==
    /\ pc \in {"done", "raised"}
    /\ \A i \in Items : fstate[i] \notin {"queued", "running"}

Attempted == {i \in Items : wpc[i] # "none"}

RecordsOf(i) == {k \in 1..Len(yielded) : yielded[k].item = i}

\* C5: when a run of upload_handler has ended, the output stream holds exactly
\* one record for each item whose processing was attempted, and each record's
\* outcome is Succeeded or Failed.
C5_OneOutcomeRecordPerAttempt ==
    RunEnded =>
        \A i \in Attempted :
            /\ Cardinality(RecordsOf(i)) = 1
            /\ \A k \in RecordsOf(i) : yielded[k].outcome \in {"Succeeded", "Failed"}

\* ---------------------------------------------------------------- C6
\* Folders whose remote creation failed.
FailedFolders == {i \in Items : wpc[i] = "folder_failed"}

FailedSubtrees == FailedFolders \cup UNION {Descendants(d) : d \in FailedFolders}

\* C6: when the remote creation of one folder fails and nothing outside that
\* folder's subtree fails, the run is not aborted: the generator ends by
\* exhausting the queue and every item outside the subtree has its record.
C6_FolderFailureConfined ==
    (/\ RunEnded
     /\ Cardinality(FailedFolders) = 1
     /\ \A i \in Items : fstate[i] = "exc" => i \in FailedSubtrees)
        => /\ pc = "done"
           /\ \A i \in Items \ FailedSubtrees : i \in YieldedItems

\* ---------------------------------------------------------------- C7
\* C7: while the download of a file that lies inside a remote folder is with a
\* worker, that folder's record has been fully processed and its local
\* directory exists.
C7_FolderMadeBeforeDownload ==
    \A i \in Items :
        (kind[i] = "f" /\ parent[i] # Root /\ fstate[i] = "running")
            => fstate[parent[i]] = "ok" /\ parent[i] \in madeDirs

\* ---------------------------------------------------------------- C8
\* C8: every value acquire() returns lies in [0, Capacity) and is the smallest
\* integer that was not held when the call ran; acquire() fails only when no
\* slot is free; and an acquire() that directly follows release(p) returns a
\* value no larger than p (p is acquirable again and preferred to every larger
\* free value).
C8_AcquireSmallestFree ==
    /\ \A k \in 1..Len(hist) :
          /\ hist[k].op = "acquire" =>
                /\ hist[k].slot \in Positions
                /\ hist[k].slot \notin hist[k].before
                /\ \A q \in Positions : q < hist[k].slot => q \in hist[k].before
          /\ hist[k].op = "raise" => hist[k].before = Positions
    /\ (Len(hist) = 2 /\ hist[1].op = "release" /\ hist[2].op = "acquire")
          => hist[2].slot <= hist[1].slot

\* A slot was released while a larger slot was free, and the next acquire()
\* returned the released slot.
C8_Witness ==
    /\ Len(hist) = 2
    /\ hist[1].op = "release"
    /\ hist[2].op = "acquire"
    /\ hist[2].slot = hist[1].slot
    /\ \E q \in Positions : q > hist[2].slot /\ q \notin hist[2].before

\* ---------------------------------------------------------------- C9
\* C9: under every interleaving of the threads' acquire and release calls, no
\* slot is held by two threads at once, and acquire() never returns a slot
\* that some thread still holds.
C9_OneHolderPerSlot ==
    /\ \A t1, t2 \in Threads : t1 # t2 => holds[t1] \cap holds[t2] = {}
    /\ \A k \in 1..Len(hist) :
          hist[k].op = "acquire" => hist[k].slot \notin hist[k].held

\* A slot released by one thread was acquired by another while the first
\* thread still holds a different slot.
C9_Witness ==
    /\ Len(hist) = 2
    /\ hist[1].op = "release"
    /\ hist[2].op = "acquire"
    /\ hist[1].slot = hist[2].slot
    /\ hist[1].th # hist[2].th
    /\ holds[hist[1].th] # {}
    /\ hist[2].slot \in holds[hist[2].th]

\* ---------------------------------------------------------------- C10
HoldsSlot(i) == position[i] # -1 /\ position[i] \in used

\* C10: a transfer that has ended, by returning or by raising, holds no
\* progress slot, and when all transfers of a run have ended no slot is held.
C10_SlotReleasedWhenTransferEnds ==
    /\ \A i \in Items : fstate[i] \in {"ok", "exc"} => ~HoldsSlot(i)
    /\ RunEnded => used = {}

\* ---------------------------------------------------------------- C11
\* The worker call of file item i ended in tracker.acquire(): the call found
\* every slot held and min([]) raised (the item raised without a position).
AcquireFoundPoolFull(i) ==
    kind[i] = "f" /\ wpc[i] = "raised" /\ position[i] = -1

\* C11: in a run with capacity C, tracker.acquire() is never called while all
\* C slots are held.
C11_AcquireNeverFindsPoolFull ==
    \A i \in Items : ~AcquireFoundPoolFull(i)

\* ---------------------------------------------------------------- C12
\* Every chunk of the job has been read.
AllRead ==
    /\ uploader.pc = "chunked"
    /\ \A c \in 1..uploader.chunks_num : uploader.reads[c] # NotRead

\* The bytes of the file that chunk c (1-based) read.
BytesOf(c) ==
    {b \in 0..MaxSize :
        /\ uploader.reads[c].from <= b
        /\ b < uploader.reads[c].from + uploader.reads[c].len}

\* The number of bytes the chunks 1..c read together.
RECURSIVE BytesBefore(_)
BytesBefore(c) ==
    IF c = 0 THEN 0 ELSE BytesBefore(c - 1) + uploader.reads[c].len

\* C12: for every file size S and URL count N >= 1, the byte ranges the N
\* chunk workers read are contiguous and pairwise disjoint and their lengths
\* sum to S: every byte of [0, S) is read exactly once.
C12_ChunksPartitionFile ==
    AllRead =>
        /\ \A b \in 0..(uploader.filesize - 1) :
              Cardinality({c \in 1..uploader.chunks_num : b \in BytesOf(c)}) = 1
        /\ \A c \in 1..uploader.chunks_num :
              /\ BytesOf(c) \subseteq 0..(uploader.filesize - 1)
              /\ Cardinality(BytesOf(c)) = uploader.reads[c].len
              /\ uploader.reads[c].len > 0 =>
                    uploader.reads[c].from = BytesBefore(c - 1)
        /\ BytesBefore(uploader.chunks_num) = uploader.filesize

\* A job whose size is not a multiple of its three or more chunks is read.
C12_Witness ==
    /\ AllRead
    /\ uploader.chunks_num >= 3
    /\ uploader.filesize % uploader.chunks_num # 0

\* ---------------------------------------------------------------- C13
\* ceil(S / N): the least c with c * N >= S.
CeilOf(S, N) == CHOOSE c \in 0..S : c * N >= S /\ \A d \in 0..(c - 1) : d * N < S

\* C13 as stated: for every file size S and URL count N >= 1, with
\* chunk_size = ceil(S/N), each chunk i in 0..N-2 covers exactly the
\* chunk_size bytes [i*chunk_size, (i+1)*chunk_size) and the last chunk covers
\* [(N-1)*chunk_size, S).
C13_FullChunksThenRemainder ==
    AllRead =>
        /\ uploader.chunk_size = CeilOf(uploader.filesize, uploader.chunks_num)
        /\ \A c \in 1..(uploader.chunks_num - 1) :
              /\ uploader.reads[c].from = (c - 1) * uploader.chunk_size
              /\ uploader.reads[c].len = uploader.chunk_size
        /\ LET last == uploader.reads[uploader.chunks_num]
           IN  /\ last.from = (uploader.chunks_num - 1) * uploader.chunk_size
               /\ last.from + last.len = uploader.filesize

\* C13, amended: with chunk_size = ceil(S/N), each chunk i in 0..N-2 covers the
\* bytes of [i*chunk_size, (i+1)*chunk_size) that lie in the file, which are
\* chunk_size bytes only when (i+1)*chunk_size <= S, and the last chunk covers
\* the bytes of the file from (N-1)*chunk_size on, which may be none.
C13_ChunksClippedToFile ==
    AllRead =>
        /\ uploader.chunk_size = CeilOf(uploader.filesize, uploader.chunks_num)
        /\ \A c \in 1..(uploader.chunks_num - 1) :
              /\ BytesOf(c) =
                    {b \in 0..(uploader.filesize - 1) :
                        /\ (c - 1) * uploader.chunk_size <= b
                        /\ b < c * uploader.chunk_size}
              /\ uploader.reads[c].len = Cardinality(BytesOf(c))
              /\ (c * uploader.chunk_size <= uploader.filesize
                    => uploader.reads[c].len = uploader.chunk_size)
        /\ BytesOf(uploader.chunks_num) =
              {b \in 0..(uploader.filesize - 1) :
                  (uploader.chunks_num - 1) * uploader.chunk_size <= b}
        /\ uploader.reads[uploader.chunks_num].len =
              Cardinality(BytesOf(uploader.chunks_num))

\* A job is read in which a chunk before the last got fewer than chunk_size
\* bytes and the last chunk starts past the end of the file.
C13_Witness ==
    /\ AllRead
    /\ \E c \in 1..(uploader.chunks_num - 1) :
          uploader.reads[c].len < uploader.chunk_size
    /\ uploader.reads[uploader.chunks_num].from > uploader.filesize

\* ---------------------------------------------------------------- C14
\* C14: FrameioUploader.upload() returns true exactly when every chunk future
\* completed without raising and false when one failed, and in neither case
\* raises to its caller.
C14_UploadNeverRaises ==
    uploader.pc # "raised"

\* ---------------------------------------------------------------- C15
\* min(0.5 * 2^i, cap) in half seconds.
BackoffHalfSec(i, cap) ==
    IF i >= 20 THEN 2 * cap ELSE Min2(2 ^ i, 2 * cap)

\* C15: the sleep retry(op, max_retry_time_sec=cap) makes after the i-th
\* consecutive failure (from 0) is min(0.5 * 2^i, cap); the sleeps are
\* non-decreasing and never above cap.
C15_SleepIsCappedBackoff ==
    /\ \A k \in 1..Len(rt.sleeps) :
          /\ rt.sleeps[k].half =
                BackoffHalfSec(rt.sleeps[k].attempt, rt.max_retry_time_sec)
          /\ rt.sleeps[k].half <= 2 * rt.max_retry_time_sec
    /\ Len(rt.sleeps) = 2 => rt.sleeps[1].half <= rt.sleeps[2].half

\* ---------------------------------------------------------------- C16
\* C16: retry never gives up: after k failures and a success it has called
\* the operation k + 1 times and returns; while the operation keeps failing it
\* keeps retrying and never raises to its caller.
C16_RetryNeverGivesUp ==
    /\ rt.pc = "returned" => rt.calls = rt.attempt + 1
    /\ rt.pc # "raised"

\* ---------------------------------------------------------------- C17
\* The records the finished stream yielded.
Emitted == {remote.emitted[k] : k \in 1..Len(remote.emitted)}

\* How many of the children of c's parent, listed up to c, have c's name.
NthOfItsName(c) ==
    Cardinality({d \in Nodes :
        /\ d <= c
        /\ remote.parent[d] = remote.parent[c]
        /\ remote.name[d] = remote.name[c]})

\* C17: among the children of one parent in listing order, the first child of
\* a name keeps the name and the n-th (n >= 2) gets the running suffix _n, put
\* before the extension: a, a, a give a, a_2, a_3.
C17_SiblingSuffixes ==
    remote.pc = "done" =>
        \A r \in Emitted :
            LET local == r.name[Len(r.name)]
                n == NthOfItsName(r.asset)
            IN  /\ local.stem = remote.name[r.asset].stem
                /\ local.ext = remote.name[r.asset].ext
                /\ local.sfx = IF n = 1
                              THEN remote.name[r.asset].sfx
                              ELSE Append(remote.name[r.asset].sfx, n)

\* Three children of the top with one name were streamed as a, a_2, a_3.
C17_Witness ==
    /\ remote.pc = "done"
    /\ \A c \in 1..3 : remote.parent[c] = Root /\ remote.name[c] = remote.name[1]
    /\ \E r1, r2, r3 \in Emitted :
          /\ r1.asset = 1 /\ r1.name = <<remote.name[1]>>
          /\ r2.asset = 2 /\ r2.name = <<[remote.name[1] EXCEPT !.sfx = <<2>>]>>
          /\ r3.asset = 3 /\ r3.name = <<[remote.name[1] EXCEPT !.sfx = <<3>>]>>

\* ---------------------------------------------------------------- C18
\* C18: in one traversal the two version-stack behaviours exclude each other
\* over the whole tree: with full version history every version stack, at
\* every depth, is yielded itself and entered, none as its cover file; in flat
\* mode every version stack is yielded as its cover file and none is entered.
C18_OneVersionStackMode ==
    remote.pc = "done" =>
        \A r \in Emitted :
            remote.type[r.asset] = "version_stack" =>
                r.as = (IF remote.recurse_vs THEN "self" ELSE "cover")

\* ---------------------------------------------------------------- C19
\* The stream renditions from the best down, and where each tier starts.
StreamOrder ==
    <<"h264_2160", "h264_1080_best", "h264_720", "h264_540", "h264_360">>

TierStart(t) == CASE t = "high" -> 1 [] t = "medium" -> 3 [] t = "low" -> 4

\* get_proxy answered a tier request on a stream asset.
StreamTierAnswered ==
    /\ px.pc = "done"
    /\ px.proxy \in Tiers
    /\ px.asset_type \in {"stream", "absent"}

\* C19: for a tier request t on a stream asset, get_proxy returns the first
\* rendition, going from tier t down to low and through each tier's candidates
\* in order, that the asset has non-empty; if there is none it returns
\* original.
C19_TierCascade ==
    StreamTierAnswered =>
        LET hits == {k \in TierStart(px.proxy)..Len(StreamOrder) :
                        StreamOrder[k] \in px.asset}
        IN  px.result = IF hits = {} THEN Pair("original")
                        ELSE Pair(StreamOrder[Min(hits)])

\* high on a stream asset without h264_2160 but with h264_1080_best and lower
\* renditions gave h264_1080_best.
C19_Witness ==
    /\ StreamTierAnswered
    /\ px.proxy = "high"
    /\ "h264_2160" \notin px.asset
    /\ {"h264_1080_best", "h264_720"} \subseteq px.asset
    /\ px.result = Pair("h264_1080_best")

\* ---------------------------------------------------------------- C20
\* C20 as stated: for a tier request the family get_proxy looks up is image
\* when the asset is a document and stream for every other asset, whatever
\* asset type it carries or when it carries none.
C20_FamilyImageOnlyForDocument ==
    (px.pc = "done" /\ px.proxy \in Tiers) =>
        px.family = (IF px.asset_type = "document" THEN "image" ELSE "stream")

\* C20, amended: the family is image for a document, stream for an asset
\* without an asset type, and otherwise the asset's own asset type; a family
\* other than stream and image has no candidates, so the request resolves to
\* original.
C20_FamilyIsOwnTypeUnlessDocument ==
    (px.pc = "done" /\ px.proxy \in Tiers) =>
        /\ px.family = (CASE px.asset_type = "document" -> "image"
                          [] px.asset_type = "absent" -> "stream"
                          [] OTHER -> px.asset_type)
        /\ px.family = "image" =>
              \/ px.result = Pair("original")
              \/ px.result.name \in {"image_high", "image_full", "image_small"}
        /\ px.family \notin {"stream", "image"} => px.result = Pair("original")

\* An asset of type image, which has stream renditions too, got an image
\* rendition for a tier request.
C20_Witness ==
    /\ px.pc = "done"
    /\ px.proxy = "high"
    /\ px.asset_type = "image"
    /\ "h264_2160" \in px.asset
    /\ px.result = Pair("image_high")

\* ---------------------------------------------------------------- C21
\* C21: for every request (none, original, a tier, a rendition by name)
\* get_proxy returns a pair of the chosen rendition's name and its URL; for a
\* rendition by name the pair is that name and the asset's URL for it.
C21_AlwaysNameAndUrl ==
    px.pc = "done" =>
        /\ px.result.pair
        /\ px.proxy \notin (Tiers \cup {"", "original"}) =>
              px.result = Pair(px.proxy)

\* ---------------------------------------------------------------- C22
\* C22: given streams sorted by key, merge_streams yields a sequence sorted
\* by key, equal keys in the order of their streams, that holds every element
\* of every stream exactly once; after a yield it advances only the stream
\* the yielded element came from.
C22_SortedStablePermutation ==
    LET out == util.out
        keyOf(k) == util.streams[out[k].idx][out[k].pos].key
    IN  /\ \A k, l \in 1..Len(out) :
              k < l => \/ keyOf(k) < keyOf(l)
                       \/ keyOf(k) = keyOf(l) /\ out[k].idx <= out[l].idx
        /\ \A i \in 1..NStreams :
              util.fetched[i] <=
                 1 + Cardinality({k \in 1..Len(out) : out[k].idx = i})
        /\ (util.pc = "loop" /\ util.heap = {}) =>
              \A i \in 1..NStreams : \A p \in 1..Len(util.streams[i]) :
                 Cardinality({k \in 1..Len(out) :
                                 out[k] = [idx |-> i, pos |-> p]}) = 1

\* ---------------------------------------------------------------- C23
\* C23: the filter accepts a name exactly when include matches it and exclude
\* does not, where an include that was not given matches everything and an
\* exclude that was not given matches nothing.
C23_IncludeAndNotExclude ==
    util.pc = "done" =>
        util.result =
           (/\ ~util.include.given \/ util.value \in util.include.found
            /\ ~(util.exclude.given /\ util.value \in util.exclude.found))

\* ---------------------------------------------------------------- C24
\* C24: when a run of upload_handler has ended, every queued folder and every
\* queued file has had exactly one creation call issued to the remote side
\* (a call that create_asset turned down for want of a parent id was never
\* issued), under every interleaving of the workers.
C24_OneCreationCallPerItem ==
    RunEnded =>
        \A i \in Items :
            Cardinality({c \in calls : c.item = i /\ c.given}) = 1

\* ---------------------------------------------------------------- C25
\* C25: during a run of upload_handler the Directory Index is written only as
\* the result of a folder creation, which writes that folder's path, once;
\* and no worker is about to write a path while another worker is about to
\* read that path.
C25_IndexWrittenByFolderCreationOnly ==
    /\ [][\A n \in 0..NItems :
            directories'[n] # directories[n] =>
               /\ n \in Items
               /\ kind[n] = "d"
               /\ wpc[n] = "folder_store"
               /\ directories[n] = 0]_vars
    /\ [](\A d, i \in Items :
            ~(/\ wpc[d] = "folder_store"
              /\ parent[i] = d
              /\ wpc[i] \in {"start", "file_lookup", "folder_lookup"}))

\* ---------------------------------------------------------------- C26
\* C26: for every finite producer, with worker calls that do not raise, when
\* exec_stream has ended it has yielded exactly one result for every item the
\* producer holds, none lost and none twice.
C26_OneResultPerItem ==
    (pc = "done" /\ \A i \in Items : fstate[i] # "exc") =>
        \A i \in Items : Cardinality(RecordsOf(i)) = 1

\* ---------------------------------------------------------------- C27
\* C27: results of asynchronous items are yielded in completion order: when
\* the call of A returned before the call of B did, B's result is not yielded
\* before A's.
C27_YieldedInCompletionOrder ==
    \A a, b \in 1..Len(completed) :
        (/\ a < b
         /\ fstate[completed[a]] = "ok"
         /\ fstate[completed[b]] = "ok") =>
            \A kb \in RecordsOf(completed[b]) :
                \E ka \in RecordsOf(completed[a]) : ka < kb

\* ---------------------------------------------------------------- C28
\* C28: the local names the stream gives to the children of one parent are
\* pairwise distinct: no two siblings get the same local path.
C28_SiblingNamesDistinct ==
    remote.pc = "done" =>
        \A r1, r2 \in Emitted :
            (/\ r1.asset # r2.asset
             /\ remote.parent[r1.asset] = remote.parent[r2.asset]) =>
                r1.name # r2.name

\* ---------------------------------------------------------------- C29
\* C29: discovery emits nothing that lies beneath a rejected directory: for
\* every emitted entry, every directory above it below the root was emitted
\* earlier.
C29_NothingBeneathRejectedDirectory ==
    \A k \in 1..Len(util.out) :
        \A d \in AncestorsIn(util.parent, util.out[k]) :
            \E j \in 1..(k - 1) : util.out[j] = d

\* ---------------------------------------------------------------- C30
\* assets.py lines 316-320 and utils.py lines 265-268: discovery adds one to
\* the total of the files progress for every queued item of type 'f', and
\* nothing for a folder.
FilesTotal == Cardinality({i \in Items : kind[i] = "f"})

\* assets.py lines 248-253, utils.py line 269: handle_result(queued_asset,
\* remote_asset) takes the item off the queue and advances the files
\* progress by one, whatever the item's type. It is the consumer of the
\* results upload_handler yields (line 344), taken here as called once per
\* result with the item and its result.
FilesCompleted == Len(yielded)

\* C30: at every point of an upload run the completed count of the files
\* progress is at most its total, the number of discovered files: folders
\* add nothing to either.
C30_CompletedAtMostTotal == FilesCompleted <= FilesTotal

\* ---------------------------------------------------------------- C31
\* C31: when the wrapped operation succeeds, on its first call or after
\* retries, retry returns to its caller the value the successful call
\* returned.
C31_ReturnsValueOfSuccessfulCall ==
    rt.pc = "returned" => rt.result = rt.response

====
